---- MODULE Spec2Model ----
(***************************************************************************)
(* Token lifecycle and authenticated-request pipeline of the TradeUnifox   *)
(* WhatsApp SDK.                                                           *)
(*                                                                         *)
(*   Spec     BaseService (core.py): one caller running request() on one   *)
(*            instance, one call after the other.                          *)
(*   SpecConc BaseService with the callers' request() calls interleaved    *)
(*            at the blocking HTTP calls (threads sharing one instance).   *)
(*   SpecTM   TokenManager (token_manager.py), one method call at a time.  *)
(*   SpecWA   the WhatsApp facade (whatsapp.py), one call at a time.       *)
(*   SpecMR   MessageReceiver (message_receiver.py): direct fetches and    *)
(*            the timer chain of start_polling.                            *)
(*                                                                         *)
(* Python values: None and the empty string are the two falsy token        *)
(* values; a token string issued by the server is modelled by the serial   *)
(* number (1, 2, ...) of the authentication response that carried it.      *)
(* Time is an integer clock (time.time()), strictly positive.              *)
(***************************************************************************)
EXTENDS Integers, FiniteSets, Sequences, TLC

\* ------------------------------------------------------------------ bounds
NumCallers == 2
MaxTime == 3
MaxIssued == 3
ShortTTL == 1
MaxMsgId == 2
MaxChains == 1
MaxPolls == 2

\* -------------------------------------------------------- program constants
DefaultExpiresIn == 3600

\* ----------------------------------------------------------- Python values
None == -1
EmptyStr == 0

\* `if x:` / `not x` on a token value
Truthy(v) == v \notin {None, EmptyStr}

\* A numeric JSON field: absent, an integer, or a value int() cannot convert.
AbsentField == [tag |-> "absent", val |-> 0]
NumField(n) == [tag |-> "int", val |-> n]
BadField == [tag |-> "str", val |-> 0]

AliasFields == {"token", "access_token", "auth_token", "key"}

Callers == 1..NumCallers

\* ------------------------------------------------------------ the server
\* JSON bodies the token endpoint can answer with; n is the token it issues.
NoAlias == [f \in AliasFields |-> None]
Body(tok, ei, eim) == [tok |-> tok, expires_in |-> ei, expires_in_minutes |-> eim]
OneAlias(f, v) == [NoAlias EXCEPT ![f] = v]

\* Lifetimes the answer can carry: none, zero, a short one, one already over,
\* and a value that is not a number.
ExpiryFields ==
  {AbsentField, NumField(0), NumField(ShortTTL), NumField(-ShortTTL), BadField}

\* Bodies carrying the token n in one alias field, with the lifetime in
\* expires_in (the field core.py reads).
TokenBodies(n) ==
       {Body(OneAlias(f, n), AbsentField, AbsentField) : f \in AliasFields}
  \cup {Body(OneAlias("token", n), e, AbsentField) : e \in ExpiryFields}

\* {"message": "bad credentials"}: none of the alias fields
MessageBody == Body(NoAlias, AbsentField, AbsentField)
\* {"token": ""}
EmptyTokenBody == Body(OneAlias("token", EmptyStr), AbsentField, AbsentField)

NoResp == [kind |-> "none", status |-> 0, json_ok |-> FALSE, body |-> MessageBody, grants |-> FALSE]
Transport == [NoResp EXCEPT !.kind = "transport"]
Http(s, ok, b, g) == [kind |-> "http", status |-> s, json_ok |-> ok, body |-> b, grants |-> g]

\* Answers of POST /get-token when the next token to issue is n.
AuthResponses(n) ==
       {Transport}
  \cup {Http(s, TRUE, MessageBody, FALSE) : s \in {401, 500}}
  \cup {Http(200, FALSE, MessageBody, FALSE)}
  \cup {Http(200, TRUE, b, FALSE) : b \in {MessageBody, EmptyTokenBody}}
  \cup {Http(200, TRUE, b, TRUE) : b \in TokenBodies(n)}

\* Answers of the authenticated endpoint.
HttpResponses ==
       {Transport}
  \cup {Http(s, TRUE, MessageBody, FALSE) : s \in {200, 401, 404, 500}}
  \cup {Http(200, FALSE, MessageBody, FALSE)}

\* ------------------------------------------------------------- BaseService
VARIABLES
  now,            \* the clock, in seconds
  issued,         \* tokens the token endpoint has issued so far
  \* BaseService (core.py)
  token, token_expiry, auto_refresh, pc, call, resp,
  \* TokenManager (token_manager.py)
  tm_token, tm_expires_at, tm_pc, tm_last,
  tm_cleared,     \* a status check cleared the cache and no generate_token
                  \* has succeeded since
  \* WhatsApp facade (whatsapp.py)
  wa_tm_token, wa_token, wa_sender, wa_last,
  wa_seen,        \* what the generate_token calls made so far have done
  \* MessageReceiver (message_receiver.py)
  mr_last_message_id,
  mr_timers,      \* threading.Timer objects started and not yet fired
  mr_polls,       \* poll steps run so far
  mr_stopped,     \* stop_polling has returned and start_polling was not called since
  mr_fetch,       \* the last receive_messages call
  mr_poll         \* the last poll step

bsVars == <<token, token_expiry, auto_refresh, pc, call, resp>>
tmVars == <<tm_token, tm_expires_at, tm_pc, tm_last, tm_cleared>>
waVars == <<wa_tm_token, wa_token, wa_sender, wa_last, wa_seen>>
mrVars == <<mr_last_message_id, mr_timers, mr_polls, mr_stopped, mr_fetch, mr_poll>>
vars == <<now, issued, bsVars, tmVars, waVars, mrVars>>

\* The arguments of request(endpoint, method, **kwargs): the method, the
\* endpoint the URL is built from, and the json keyword (the body).
NoRequest == [method |-> "none", endpoint |-> "none", json |-> "none"]
GetMessages == [method |-> "GET", endpoint |-> "messages", json |-> "none"]
PostSend == [method |-> "POST", endpoint |-> "send", json |-> "message"]
Requests == {GetMessages, PostSend}

\* What one request() call has done so far (history of the call).
NewCall == [tok0 |-> None, exp0 |-> 0, now0 |-> 0,
            stage |-> "none", nAuth |-> 0, nReauth |-> 0,
            nHttp |-> 0, authBefore |-> 0, kind1 |-> "none", status1 |-> 0,
            sent1 |-> None, sent2 |-> None,
            req |-> NoRequest, req1 |-> NoRequest, req2 |-> NoRequest,
            authErr |-> "none", result |-> "none"]

\* The requests exceptions (subclasses of requests.exceptions.RequestException)
IsRequestException(e) == e \in {"ConnectionError", "Timeout", "HTTPError", "JSONDecodeError"}

\* response.json() on a body that is not JSON: requests.exceptions.JSONDecodeError
\* (a RequestException) in requests >= 2.27, a plain ValueError before.
JsonError(caught) == IF caught THEN "JSONDecodeError" ELSE "ValueError"

\* The two behaviours of .json() on the answer r; they differ only when r is a
\* 2xx answer whose body is not JSON.
JsonCases(r) ==
  IF r.kind = "http" /\ r.status < 400 /\ ~r.json_ok THEN BOOLEAN ELSE {TRUE}

\* _ensure_token that looks at the presence of the token only
NeedsRefreshNoExpiry(tok, exp, t) == ~Truthy(tok)

\* BaseService._ensure_token: the refresh condition
NeedsRefresh(tok, exp, t) == ~Truthy(tok) \/ t >= exp

\* response.raise_for_status()
RaisesForStatus(r) == r.status >= 400

\* except requests.exceptions.RequestException in authenticate
AuthExcept(e) == IF IsRequestException(e) THEN "NetworkError" ELSE e

\* except requests.exceptions.RequestException in request
RequestExcept(e) == IF IsRequestException(e) THEN "APIError" ELSE e

\* BaseService.authenticate on the answer r: the error raised ("none" when it
\* returns) and the token fields it leaves. caught: whether the installed
\* requests raises a JSON decoding error as a RequestException.
Authenticate(r, tok, exp, t, caught) ==
  IF r.kind = "transport"
  THEN [err |-> AuthExcept("ConnectionError"), token |-> tok, token_expiry |-> exp]
  ELSE IF RaisesForStatus(r)
  THEN [err |-> AuthExcept("HTTPError"), token |-> tok, token_expiry |-> exp]
  ELSE IF ~r.json_ok
  THEN [err |-> AuthExcept(JsonError(caught)), token |-> tok, token_expiry |-> exp]
  ELSE IF Truthy(r.body.tok["token"])
  THEN IF r.body.expires_in.tag = "str"
       THEN [err |-> "ValueError", token |-> r.body.tok["token"], token_expiry |-> exp]
       ELSE [err |-> "none", token |-> r.body.tok["token"],
             token_expiry |-> t + (IF r.body.expires_in.tag = "absent"
                                   THEN DefaultExpiresIn
                                   ELSE r.body.expires_in.val)]
  ELSE [err |-> "AuthenticationError", token |-> tok, token_expiry |-> exp]

\* A retry that sends the credentials of the first call again
SendHttpStale(c, tok) ==
  [c EXCEPT !.nHttp = @ + 1,
            !.sent1 = IF c.nHttp = 0 THEN tok ELSE @,
            !.sent2 = IF c.nHttp = 0 THEN @ ELSE c.sent1,
            !.req1 = IF c.nHttp = 0 THEN c.req ELSE @,
            !.req2 = IF c.nHttp = 0 THEN @ ELSE c.req,
            !.authBefore = IF c.nHttp = 0 THEN c.nAuth ELSE @]

\* requests.request(method, url, auth=(self.username, self.token), ...)
SendHttp(c, tok) ==
  [c EXCEPT !.nHttp = @ + 1,
            !.sent1 = IF c.nHttp = 0 THEN tok ELSE @,
            !.sent2 = IF c.nHttp = 0 THEN @ ELSE tok,
            !.req1 = IF c.nHttp = 0 THEN c.req ELSE @,
            !.req2 = IF c.nHttp = 0 THEN @ ELSE c.req,
            !.authBefore = IF c.nHttp = 0 THEN c.nAuth ELSE @]

\* self.authenticate() begins: the POST to /get-token is sent
SendAuth(c, why) ==
  [c EXCEPT !.stage = why, !.nAuth = @ + 1,
            !.nReauth = IF why = "reauth" THEN @ + 1 ELSE @]

\* A 401 branch that does not look at auto_refresh
RetriesOn401Always(r, c) == r.status = 401 /\ c.nHttp = 1

\* A 401 branch that is taken again after the retry (a retry loop)
RetriesOn401Loop(r, c) == r.status = 401 /\ auto_refresh

\* A 401 branch taken on any error status
RetriesOnAnyError(r, c) == r.status >= 400 /\ auto_refresh /\ c.nHttp = 1

\* The 401 branch of request
RetriesOn401(r, c) == r.status = 401 /\ auto_refresh /\ c.nHttp = 1

\* ------------------------------------------------------------ TokenManager
SecondsPerMinute == 60
DefaultExpiresInMinutes == 60

\* data.get("token") or data.get("access_token") or data.get("auth_token") or data.get("key")
FirstAlias(b) ==
  IF Truthy(b["token"]) THEN b["token"]
  ELSE IF Truthy(b["access_token"]) THEN b["access_token"]
  ELSE IF Truthy(b["auth_token"]) THEN b["auth_token"]
  ELSE b["key"]

\* Bodies carrying the token n with the lifetime in expires_in_minutes (the
\* field token_manager.py reads).
MinuteBodies(n) ==
       {Body(OneAlias(f, n), AbsentField, AbsentField) : f \in AliasFields}
  \cup {Body(OneAlias("token", n), AbsentField, e) : e \in ExpiryFields}

\* Answers of POST /get-token to the token manager.
TokenResponses(n) ==
       {Transport}
  \cup {Http(s, TRUE, MessageBody, FALSE) : s \in {401, 500}}
  \cup {Http(200, FALSE, MessageBody, FALSE)}
  \cup {Http(200, TRUE, b, FALSE) : b \in {MessageBody, EmptyTokenBody}}
  \cup {Http(200, TRUE, b, TRUE) : b \in MinuteBodies(n)}

\* Answers of POST /check-token: has_token, the alias fields, and expires_at
\* (absent, an instant, or a string fromisoformat rejects).
Check(s, ok, has, tok, ea) ==
  [kind |-> "http", status |-> s, json_ok |-> ok, has_token |-> has, tok |-> tok,
   expires_at |-> ea]
NoCheck == [kind |-> "none", status |-> 0, json_ok |-> FALSE, has_token |-> FALSE,
            tok |-> NoAlias, expires_at |-> AbsentField]
CheckTransport == [NoCheck EXCEPT !.kind = "transport"]

\* Expiry instants the server may report at time t.
Instants(t) == {t - 1, t + 1, t + SecondsPerMinute}

CheckResponses(n, t) ==
       {CheckTransport}
  \cup {Check(500, TRUE, FALSE, NoAlias, AbsentField)}
  \cup {Check(200, FALSE, FALSE, NoAlias, AbsentField)}
  \cup {Check(200, TRUE, FALSE, NoAlias, AbsentField)}
  \cup {Check(200, TRUE, TRUE, tk, ea) :
          tk \in {NoAlias} \cup (IF n >= 1 THEN {OneAlias("token", n)} ELSE {}),
          ea \in {AbsentField, BadField} \cup {NumField(i) : i \in Instants(t)}}

\* What a TokenManager method returns: the dictionaries of generate_token,
\* check_token_status and get_token_info, and the header of get_auth_headers.
NoRet == [has_token |-> FALSE, token |-> None, expires_in_minutes |-> 0,
          expires_at |-> None, error |-> FALSE, is_new_token |-> FALSE]

\* The TokenManager method called last (running while tm_pc is not "idle"):
\* the error it raised ("none" when it returned), what it returned, the
\* generate_token and check_token_status calls it made, the answers it got.
NoHeader == [scheme |-> "none", token |-> None]
NoOp == [op |-> "none", err |-> "none", ret |-> NoRet, gens |-> 0, checks |-> 0,
         was_valid |-> FALSE, header |-> NoHeader, tokenResp |-> NoResp,
         checkResp |-> NoCheck]

\* is_token_valid that takes an unknown expiry for a token that never expires
IsTokenValidNoExpiry(tok, exp, t) ==
  IF ~Truthy(tok) THEN FALSE ELSE exp = None \/ t < exp

\* is_token_valid that still accepts the token at the instant it expires
IsTokenValidAtExpiry(tok, exp, t) ==
  IF ~Truthy(tok) \/ exp = None THEN FALSE ELSE t <= exp

\* TokenManager.is_token_valid
IsTokenValid(tok, exp, t) ==
  IF ~Truthy(tok) \/ exp = None THEN FALSE ELSE t < exp

\* TokenManager.get_minutes_until_expiry
MinutesUntilExpiry(exp, t) ==
  IF exp = None THEN None
  ELSE IF exp - t <= 0 THEN 0
  ELSE (exp - t) \div SecondsPerMinute

\* TokenManager.generate_token on the answer r: the error raised, the fields
\* it leaves and the dictionary it returns.
GenerateToken(r, tok, exp, t, caught) ==
  LET same(e) == [err |-> e, token |-> tok, expires_at |-> exp, ret |-> NoRet]
      tk == FirstAlias(r.body.tok)
      f == r.body.expires_in_minutes
      mins == IF f.tag = "absent" THEN DefaultExpiresInMinutes ELSE f.val
  IN IF r.kind = "transport" THEN same("ConnectionError")
     ELSE IF RaisesForStatus(r) THEN same("HTTPError")
     ELSE IF ~r.json_ok THEN same(JsonError(caught))
     ELSE IF ~Truthy(tk) THEN same("ValueError")
     ELSE IF f.tag = "str"
     THEN [err |-> "TypeError", token |-> tk, expires_at |-> exp, ret |-> NoRet]
     ELSE [err |-> "none", token |-> tk, expires_at |-> t + mins * SecondsPerMinute,
           ret |-> [NoRet EXCEPT !.token = tk, !.expires_in_minutes = mins,
                                 !.expires_at = t + mins * SecondsPerMinute]]

\* TokenManager.check_token_status on the answer r.
CheckTokenStatus(r, tok, exp, t, caught) ==
  LET failed == [err |-> "none", token |-> tok, expires_at |-> exp,
                 ret |-> [NoRet EXCEPT !.error = TRUE]]
      tk == FirstAlias(r.tok)
      ea == r.expires_at
      left == ea.val - t
  IN IF r.kind = "transport" \/ RaisesForStatus(r) THEN failed
     ELSE IF ~r.json_ok
     THEN (IF caught THEN failed
           ELSE [err |-> "ValueError", token |-> tok, expires_at |-> exp, ret |-> NoRet])
     ELSE IF r.has_token
     THEN IF ea.tag = "str"
          THEN [err |-> "ValueError", token |-> tok, expires_at |-> exp, ret |-> NoRet]
          ELSE IF ea.tag = "int"
          THEN [err |-> "none", token |-> tk, expires_at |-> ea.val,
                ret |-> [NoRet EXCEPT !.has_token = TRUE, !.token = tk,
                           !.expires_in_minutes =
                              IF left > 0 THEN left \div SecondsPerMinute ELSE 0,
                           !.expires_at = ea.val]]
          ELSE [err |-> "none", token |-> tok, expires_at |-> exp,
                ret |-> [NoRet EXCEPT !.has_token = TRUE, !.token = tk]]
     ELSE [err |-> "none", token |-> None, expires_at |-> None, ret |-> NoRet]

\* The else branch of `if data.get("has_token")`: a 2xx JSON answer without
\* a true has_token
ReportsNoToken(r) ==
  r.kind = "http" /\ ~RaisesForStatus(r) /\ r.json_ok /\ ~r.has_token

\* tm_cleared after check_token_status has handled the answer r
ClearedByCheck(r, c) == ReportsNoToken(r) \/ c

\* tm_cleared after generate_token has ended with the outcome gen
ClearedAfterGenerate(gen, c) == gen.err # "none" /\ c

\* get_token_info: the status st says a token exists and has minutes left
ReusesToken(st) == st.ret.has_token /\ st.ret.expires_in_minutes > 0

\* get_token_info returning the existing token of the status st
ExistingInfo(st) == [st.ret EXCEPT !.error = FALSE, !.is_new_token = FALSE]

\* get_token_info returning the token generate_token produced
NewInfo(gen) == [gen.ret EXCEPT !.has_token = FALSE, !.is_new_token = TRUE]

\* get_auth_headers: {"Authorization": f"Bearer {self.token}", ...}
AuthHeader(tok) == [scheme |-> "Bearer", token |-> tok]

\* The header get_auth_headers returns when op is get_auth_headers.
HeaderOf(op, tok) == IF op = "get_auth_headers" THEN AuthHeader(tok) ELSE NoHeader

\* generate_token() is called and the token endpoint answers.
TMGenerateToken ==
  /\ tm_pc = "idle"
  /\ \E r \in TokenResponses(issued + 1) : \E caught \in JsonCases(r) :
       LET o == GenerateToken(r, tm_token, tm_expires_at, now, caught)
       IN /\ r.grants => issued < MaxIssued
          /\ issued' = IF r.grants THEN issued + 1 ELSE issued
          /\ tm_token' = o.token
          /\ tm_expires_at' = o.expires_at
          /\ tm_cleared' = ClearedAfterGenerate(o, tm_cleared)
          /\ tm_last' = [NoOp EXCEPT !.op = "generate_token", !.err = o.err,
                                     !.ret = o.ret, !.gens = 1, !.tokenResp = r]
  /\ UNCHANGED <<now, tm_pc, bsVars, waVars, mrVars>>

\* check_token_status() is called and the status endpoint answers.
TMCheckTokenStatus ==
  /\ tm_pc = "idle"
  /\ \E r \in CheckResponses(issued, now) : \E caught \in JsonCases(r) :
       LET o == CheckTokenStatus(r, tm_token, tm_expires_at, now, caught)
       IN /\ tm_token' = o.token
          /\ tm_expires_at' = o.expires_at
          /\ tm_cleared' = ClearedByCheck(r, tm_cleared)
          /\ tm_last' = [NoOp EXCEPT !.op = "check_token_status", !.err = o.err,
                                     !.ret = o.ret, !.checks = 1, !.checkResp = r]
  /\ UNCHANGED <<now, issued, tm_pc, bsVars, waVars, mrVars>>

\* get_token_info up to the answer of its status check, run by the method op
\* (get_token_info itself, or get_auth_headers): it ends there with the
\* existing token or an error, or goes on to generate_token.
InfoCheck(op) ==
  \E rc \in CheckResponses(issued, now) : \E caught \in JsonCases(rc) :
    LET st == CheckTokenStatus(rc, tm_token, tm_expires_at, now, caught)
        l == [NoOp EXCEPT !.op = op, !.checks = 1, !.checkResp = rc]
    IN /\ tm_token' = st.token
       /\ tm_expires_at' = st.expires_at
       /\ tm_cleared' = ClearedByCheck(rc, tm_cleared)
       /\ IF st.err # "none"
          THEN /\ tm_pc' = "idle"
               /\ tm_last' = [l EXCEPT !.err = st.err]
          ELSE IF ReusesToken(st)
          THEN /\ tm_pc' = "idle"
               /\ tm_last' = [l EXCEPT !.ret = ExistingInfo(st),
                                       !.header = HeaderOf(op, st.token)]
          ELSE /\ tm_pc' = "generating"
               /\ tm_last' = l

\* get_token_info() is called.
TMGetTokenInfo ==
  /\ tm_pc = "idle"
  /\ InfoCheck("get_token_info")
  /\ UNCHANGED <<now, issued, bsVars, waVars, mrVars>>

\* get_auth_headers() is called.
TMGetAuthHeaders ==
  /\ tm_pc = "idle"
  /\ IF IsTokenValid(tm_token, tm_expires_at, now)
     THEN /\ tm_last' = [NoOp EXCEPT !.op = "get_auth_headers", !.was_valid = TRUE,
                                     !.header = AuthHeader(tm_token)]
          /\ UNCHANGED <<tm_token, tm_expires_at, tm_pc, tm_cleared>>
     ELSE InfoCheck("get_auth_headers")
  /\ UNCHANGED <<now, issued, bsVars, waVars, mrVars>>

\* The generate_token() call of get_token_info, and the return of the method.
TMInfoGenerate ==
  /\ tm_pc = "generating"
  /\ \E rg \in TokenResponses(issued + 1) : \E caught \in JsonCases(rg) :
       LET gen == GenerateToken(rg, tm_token, tm_expires_at, now, caught)
       IN /\ rg.grants => issued < MaxIssued
          /\ issued' = IF rg.grants THEN issued + 1 ELSE issued
          /\ tm_token' = gen.token
          /\ tm_expires_at' = gen.expires_at
          /\ tm_cleared' = ClearedAfterGenerate(gen, tm_cleared)
          /\ tm_last' = [tm_last EXCEPT
                           !.err = gen.err, !.gens = 1, !.tokenResp = rg,
                           !.ret = IF gen.err = "none" THEN NewInfo(gen) ELSE NoRet,
                           !.header = IF gen.err = "none"
                                      THEN HeaderOf(tm_last.op, gen.token) ELSE NoHeader]
  /\ tm_pc' = "idle"
  /\ UNCHANGED <<now, bsVars, waVars, mrVars>>

\* WhatsApp.message_sender before generate_token
NoSender == [exists |-> FALSE, token |-> None]

\* The last facade method called: the error it raised, the HTTP calls it
\* made and the answer it got.
NoFacadeOp == [op |-> "none", err |-> "none", http |-> 0, r |-> NoResp]

\* --------------------------------------------------------- MessageReceiver
\* A message is modelled by its 'id' field: None when the message has none.
MsgIds == {None} \cup 1..MaxMsgId

\* The 'messages' lists an answer can carry, the most recent message first:
\* empty, one message, or two of which the first may lack its id.
MessageLists ==
       {<<>>}
  \cup {<<a>> : a \in MsgIds}
  \cup {<<a, a - 1>> : a \in 2..MaxMsgId}
  \cup {<<None, a>> : a \in {MaxMsgId}}

\* Answers of GET /receive: the request timing out, failing in transport,
\* an error status, a 2xx body that is not JSON, a 2xx JSON body without the
\* 'messages' key, and one with a 'messages' list.
Fetched(k, s, ok, has, ms) ==
  [kind |-> k, status |-> s, json_ok |-> ok, has_messages |-> has, messages |-> ms]
NoAnswer == Fetched("none", 0, FALSE, FALSE, <<>>)
FetchResponses ==
       {Fetched("timeout", 0, FALSE, FALSE, <<>>)}
  \cup {Fetched("transport", 0, FALSE, FALSE, <<>>)}
  \cup {Fetched("http", 500, ok, FALSE, <<>>) : ok \in BOOLEAN}
  \cup {Fetched("http", 200, FALSE, FALSE, <<>>)}
  \cup {Fetched("http", 200, TRUE, FALSE, <<>>)}
  \cup {Fetched("http", 200, TRUE, TRUE, ms) : ms \in MessageLists}

\* What the last receive_messages call sent, received and did: the cursor
\* before it, the 'after' parameter (None when not sent), the answer, the
\* error raised ("none" when it returned), and the returned dictionary's
\* 'messages' and 'error' ("none" when it has no such key).
NoFetch == [before |-> None, after |-> None, resp |-> NoAnswer, err |-> "none",
            messages |-> <<>>, error |-> "none"]

\* What the last poll step did: the messages its fetch returned, whether the
\* callback was invoked and how it ended, and the timers the step started.
NoPoll == [messages |-> <<>>, called |-> FALSE, outcome |-> "none", scheduled |-> 0]

\* if self.last_message_id: params["after"] = self.last_message_id
AfterParam(last) == IF Truthy(last) THEN last ELSE None

\* An exception handler of receive_messages that lets the error out
DegradedRaises(e, last) ==
  [err |-> e, messages |-> <<>>, error |-> "none", last_message_id |-> last]

\* The exception handlers of receive_messages: return {"messages": [], "error": ...}
Degraded(e, last) ==
  [err |-> "none", messages |-> <<>>, error |-> e, last_message_id |-> last]

\* if messages and len(messages) > 0: self.last_message_id = messages[0].get('id')
CursorAfter(msgs, last) == IF Len(msgs) > 0 THEN msgs[1] ELSE last

\* MessageReceiver.receive_messages on the answer r: the error raised, the
\* dictionary returned and the cursor it leaves.
ReceiveMessages(r, last, caught) ==
  IF r.kind = "timeout" THEN Degraded("timeout", last)
  ELSE IF r.kind = "transport" THEN Degraded("ConnectionError", last)
  ELSE IF RaisesForStatus(r) THEN Degraded("HTTPError", last)
  ELSE IF ~r.json_ok
  THEN (IF caught THEN Degraded("JSONDecodeError", last)
        ELSE [err |-> "ValueError", messages |-> <<>>, error |-> "none",
              last_message_id |-> last])
  ELSE LET msgs == IF r.has_messages THEN r.messages ELSE <<>>
       IN [err |-> "none", messages |-> msgs, error |-> "none",
           last_message_id |-> CursorAfter(msgs, last)]

\* The history of a receive_messages call with the outcome o
FetchOf(r, last, o) ==
  [before |-> last, after |-> AfterParam(last), resp |-> r, err |-> o.err,
   messages |-> o.messages, error |-> o.error]

\* How the callback of a poll step can end: it is not called, returns, raises
\* an Exception, or raises a BaseException that is not an Exception
\* (SystemExit from sys.exit()).
CallbackOutcomes(msgs) ==
  IF Len(msgs) > 0 THEN {"returns", "Exception", "SystemExit"} ELSE {"none"}

\* A poll step that reschedules only when nothing was raised
ReschedulesUnlessRaised(outcome) ==
  IF outcome \in {"Exception", "SystemExit"} THEN 0 ELSE 1

\* The timers a poll step starts: one at the end of the try block, or one in
\* the `except Exception` handler; none when the exception is not an Exception.
Reschedules(outcome) == IF outcome = "SystemExit" THEN 0 ELSE 1

\* receive_messages() is called directly.
MRReceiveMessages ==
  /\ \E r \in FetchResponses : \E caught \in JsonCases(r) :
       LET o == ReceiveMessages(r, mr_last_message_id, caught)
       IN /\ mr_last_message_id' = o.last_message_id
          /\ mr_fetch' = FetchOf(r, mr_last_message_id, o)
  /\ UNCHANGED <<now, issued, bsVars, tmVars, waVars, mr_timers, mr_polls,
                 mr_stopped, mr_poll>>

\* start_polling(callback): threading.Timer(0, poll).start()
MRStartPolling ==
  /\ mr_timers < MaxChains
  /\ mr_timers' = mr_timers + 1
  /\ mr_stopped' = FALSE
  /\ UNCHANGED <<now, issued, bsVars, tmVars, waVars, mr_last_message_id,
                 mr_polls, mr_fetch, mr_poll>>

\* A timer fires and poll() runs: the fetch, the callback when messages came,
\* and the timer for the next step.
MRPoll ==
  /\ mr_timers > 0
  /\ mr_polls < MaxPolls
  /\ \E r \in FetchResponses : \E caught \in JsonCases(r) :
       LET o == ReceiveMessages(r, mr_last_message_id, caught)
       IN /\ mr_last_message_id' = o.last_message_id
          /\ mr_fetch' = FetchOf(r, mr_last_message_id, o)
          /\ \E cb \in CallbackOutcomes(o.messages) :
               /\ mr_poll' = [messages |-> o.messages, called |-> cb # "none",
                              outcome |-> cb, scheduled |-> Reschedules(cb)]
               /\ mr_timers' = mr_timers - 1 + Reschedules(cb)
  /\ mr_polls' = mr_polls + 1
  /\ UNCHANGED <<now, issued, bsVars, tmVars, waVars, mr_stopped>>

\* stop_polling(): logs and returns.
MRStopPolling ==
  /\ mr_stopped' = TRUE
  /\ UNCHANGED <<now, issued, bsVars, tmVars, waVars, mr_last_message_id,
                 mr_timers, mr_polls, mr_fetch, mr_poll>>

\* History of the facade's generate_token calls: one completed without
\* error, one raised, one returned a non-empty token.
NothingSeen == [ok |-> FALSE, failed |-> FALSE, obtained |-> FALSE]

TypeOK ==
  /\ token \in {None} \cup 1..MaxIssued
  /\ token_expiry \in Int
  /\ auto_refresh \in BOOLEAN
  /\ now \in 1..MaxTime
  /\ issued \in 0..MaxIssued
  /\ pc \in [Callers -> {"idle", "auth_wait", "auth_reply", "http_wait", "http_reply", "done"}]
  /\ tm_token \in {None} \cup 1..MaxIssued
  /\ tm_expires_at \in Int
  /\ tm_pc \in {"idle", "generating"}
  /\ tm_cleared \in BOOLEAN
  /\ wa_tm_token \in {None, EmptyStr} \cup 1..MaxIssued
  /\ wa_token \in {None, EmptyStr} \cup 1..MaxIssued
  /\ wa_sender.exists => wa_sender.token = wa_token
  /\ mr_last_message_id \in MsgIds
  /\ mr_timers \in 0..MaxChains
  /\ mr_polls \in 0..MaxPolls
  /\ mr_stopped \in BOOLEAN

\* The clock and the server before the first call
InitEnv ==
  /\ now = 1
  /\ issued = 0

\* BaseService.__init__
InitBase(ar) ==
  /\ token = None
  /\ token_expiry = 0
  /\ auto_refresh \in ar
  /\ pc = [t \in Callers |-> "idle"]
  /\ call = [t \in Callers |-> NewCall]
  /\ resp = [t \in Callers |-> NoResp]

\* TokenManager.__init__
InitTokenManager ==
  /\ tm_token = None
  /\ tm_expires_at = None
  /\ tm_pc = "idle"
  /\ tm_last = NoOp
  /\ tm_cleared = FALSE

\* WhatsApp.__init__
InitWhatsApp ==
  /\ wa_tm_token = None
  /\ wa_token = None
  /\ wa_sender = NoSender
  /\ wa_last = NoFacadeOp
  /\ wa_seen = NothingSeen

\* MessageReceiver.__init__
InitReceiver ==
  /\ mr_last_message_id = None
  /\ mr_timers = 0
  /\ mr_polls = 0
  /\ mr_stopped = FALSE
  /\ mr_fetch = NoFetch
  /\ mr_poll = NoPoll

Init ==
  InitEnv /\ InitBase(BOOLEAN) /\ InitTokenManager /\ InitWhatsApp /\ InitReceiver

\* request() is entered with the arguments q: _ensure_token, then either the
\* POST of authenticate or the first HTTP call is on the wire.
RequestCall(t, q) ==
  /\ pc[t] \in {"idle", "done"}
  /\ LET c0 == [NewCall EXCEPT !.tok0 = token, !.exp0 = token_expiry, !.now0 = now,
                               !.req = q]
     IN IF NeedsRefresh(token, token_expiry, now)
        THEN /\ pc' = [pc EXCEPT ![t] = "auth_wait"]
             /\ call' = [call EXCEPT ![t] = SendAuth(c0, "ensure")]
        ELSE /\ pc' = [pc EXCEPT ![t] = "http_wait"]
             /\ call' = [call EXCEPT ![t] = SendHttp(c0, token)]
  /\ UNCHANGED <<token, token_expiry, auto_refresh, now, issued, resp, tmVars, waVars, mrVars>>

\* request() is called by t.
RequestStart(t) == \E q \in Requests : RequestCall(t, q)

\* The token endpoint answers caller t's POST.
ServerAuth(t) ==
  /\ pc[t] = "auth_wait"
  /\ \E r \in AuthResponses(issued + 1) :
       /\ r.grants => issued < MaxIssued
       /\ resp' = [resp EXCEPT ![t] = r]
       /\ issued' = IF r.grants THEN issued + 1 ELSE issued
  /\ pc' = [pc EXCEPT ![t] = "auth_reply"]
  /\ UNCHANGED <<token, token_expiry, auto_refresh, now, call, tmVars, waVars, mrVars>>

\* _ensure_token moved inside the try block under a handler of every exception
AuthFailureWrapped(e, stage) == "APIError"

\* What request() raises when the authenticate() it called raises e:
\* _ensure_token runs before the try block, the 401 branch inside it.
AuthFailure(e, stage) == IF stage = "reauth" THEN RequestExcept(e) ELSE e

\* authenticate() handles the answer; on success the caller goes on to the
\* HTTP call (the first one after _ensure_token, the retry after a 401).
AuthReturn(t) ==
  /\ pc[t] = "auth_reply"
  /\ \E caught \in JsonCases(resp[t]) :
       LET o == Authenticate(resp[t], token, token_expiry, now, caught)
           c == [call[t] EXCEPT !.authErr = o.err]
       IN /\ token' = o.token
          /\ token_expiry' = o.token_expiry
          /\ IF o.err = "none"
             THEN /\ pc' = [pc EXCEPT ![t] = "http_wait"]
                  /\ call' = [call EXCEPT ![t] = SendHttp(c, o.token)]
             ELSE /\ pc' = [pc EXCEPT ![t] = "done"]
                  /\ call' = [call EXCEPT ![t] =
                                [c EXCEPT !.result = AuthFailure(o.err, c.stage)]]
  /\ UNCHANGED <<auto_refresh, now, issued, resp, tmVars, waVars, mrVars>>

\* The endpoint answers caller t's HTTP call.
ServerHttp(t) ==
  /\ pc[t] = "http_wait"
  /\ \E r \in HttpResponses : resp' = [resp EXCEPT ![t] = r]
  /\ pc' = [pc EXCEPT ![t] = "http_reply"]
  /\ UNCHANGED <<token, token_expiry, auto_refresh, now, issued, call, tmVars, waVars, mrVars>>

\* The error request() ends with on the answer r ("ok" when it returns).
Classify(r, caught) ==
  IF r.kind = "transport" THEN RequestExcept("ConnectionError")
  ELSE IF RaisesForStatus(r) THEN RequestExcept("HTTPError")
  ELSE IF ~r.json_ok THEN RequestExcept(JsonError(caught))
  ELSE "ok"

\* request() handles the answer of its HTTP call.
HttpReturn(t) ==
  /\ pc[t] = "http_reply"
  /\ LET r == resp[t]
         c == IF call[t].nHttp = 1
              THEN [call[t] EXCEPT !.kind1 = r.kind, !.status1 = r.status]
              ELSE call[t]
     IN IF r.kind = "http" /\ RetriesOn401(r, c)
        THEN /\ pc' = [pc EXCEPT ![t] = "auth_wait"]
             /\ call' = [call EXCEPT ![t] = SendAuth(c, "reauth")]
        ELSE /\ pc' = [pc EXCEPT ![t] = "done"]
             /\ \E caught \in JsonCases(r) :
                  call' = [call EXCEPT ![t] = [c EXCEPT !.result = Classify(r, caught)]]
  /\ UNCHANGED <<token, token_expiry, auto_refresh, now, issued, resp, tmVars, waVars, mrVars>>

\* time.time() advances
Tick ==
  /\ now < MaxTime
  /\ now' = now + 1
  /\ UNCHANGED <<issued, bsVars, tmVars, waVars, mrVars>>

\* ---------------------------------------------------------- WhatsApp facade
\* WhatsApp.TokenManager.generate_token on the answer r: the error raised
\* and the token it stores and returns.
FacadeGenerateToken(r, tok, caught) ==
  IF r.kind = "transport" THEN [err |-> "ConnectionError", token |-> tok]
  ELSE IF RaisesForStatus(r) THEN [err |-> "HTTPError", token |-> tok]
  ELSE IF ~r.json_ok THEN [err |-> JsonError(caught), token |-> tok]
  ELSE [err |-> "none", token |-> r.body.tok["token"]]

\* A facade that builds the message sender whether or not the token
\* manager's generate_token raised
SenderAfterAnyOutcome(o, sender) == [exists |-> TRUE, token |-> o.token]

\* WhatsApp.message_sender after WhatsApp.generate_token, whose call of the
\* token manager ended with the outcome o
SenderAfter(o, sender) ==
  IF o.err = "none" THEN [exists |-> TRUE, token |-> o.token] ELSE sender

\* wa_seen after a generate_token call with the outcome o
SeenAfter(o, seen) ==
  [ok |-> seen.ok \/ o.err = "none",
   failed |-> seen.failed \/ o.err # "none",
   obtained |-> seen.obtained \/ (o.err = "none" /\ Truthy(o.token))]

\* WhatsApp.generate_token
WAGenerateToken ==
  \E r \in TokenResponses(issued + 1) : \E caught \in JsonCases(r) :
    LET o == FacadeGenerateToken(r, wa_tm_token, caught)
    IN /\ r.grants => issued < MaxIssued
       /\ issued' = IF r.grants THEN issued + 1 ELSE issued
       /\ wa_tm_token' = o.token
       /\ wa_token' = IF o.err = "none" THEN o.token ELSE wa_token
       /\ wa_sender' = SenderAfter(o, wa_sender)
       /\ wa_seen' = SeenAfter(o, wa_seen)
       /\ wa_last' = [op |-> "generate_token", err |-> o.err, http |-> 1, r |-> r]
       /\ UNCHANGED <<now, bsVars, tmVars, mrVars>>

\* WhatsApp.MessageSender.send_message on the answer r
SenderSendMessage(r, caught) ==
  IF r.kind = "transport" THEN "ConnectionError"
  ELSE IF RaisesForStatus(r) THEN "HTTPError"
  ELSE IF ~r.json_ok THEN JsonError(caught)
  ELSE "none"

\* WhatsApp.send_message
WASendMessage ==
  /\ IF ~wa_sender.exists
     THEN wa_last' = [op |-> "send_message", err |-> "ValueError", http |-> 0, r |-> NoResp]
     ELSE \E r \in HttpResponses : \E caught \in JsonCases(r) :
            wa_last' = [op |-> "send_message", err |-> SenderSendMessage(r, caught),
                        http |-> 1, r |-> r]
  /\ UNCHANGED <<now, issued, bsVars, tmVars, wa_tm_token, wa_token, wa_sender, wa_seen, mrVars>>

\* One caller, one call after the other.
Single == {1}

Next ==
  \/ \E t \in Single : RequestStart(t)
  \/ \E t \in Single : ServerAuth(t)
  \/ \E t \in Single : AuthReturn(t)
  \/ \E t \in Single : ServerHttp(t)
  \/ \E t \in Single : HttpReturn(t)
  \/ Tick

Spec == Init /\ [][Next]_vars

\* Threads sharing the instance, each making one call (the same GET); the
\* calls interleave at their blocking HTTP calls.
NextConc ==
  \/ \E t \in Callers : pc[t] = "idle" /\ RequestCall(t, GetMessages)
  \/ \E t \in Callers : ServerAuth(t)
  \/ \E t \in Callers : AuthReturn(t)
  \/ \E t \in Callers : ServerHttp(t)
  \/ \E t \in Callers : HttpReturn(t)
  \/ Tick

SpecConc == Init /\ [][NextConc]_vars

\* The token manager, one call after the other.
InitTM ==
  InitEnv /\ InitBase({TRUE}) /\ InitTokenManager /\ InitWhatsApp /\ InitReceiver

NextTM ==
  \/ TMGenerateToken
  \/ TMCheckTokenStatus
  \/ TMGetTokenInfo
  \/ TMGetAuthHeaders
  \/ TMInfoGenerate
  \/ Tick

SpecTM == InitTM /\ [][NextTM]_vars

\* The facade, one call after the other.
NextWA ==
  \/ WAGenerateToken
  \/ WASendMessage

SpecWA == InitTM /\ [][NextWA]_vars

\* The message receiver: direct calls and the polling chain.
NextMR ==
  \/ MRReceiveMessages
  \/ MRStartPolling
  \/ MRPoll
  \/ MRStopPolling

SpecMR == InitTM /\ [][NextMR]_vars

\* ------------------------------------------------------ claims, BaseService
Done(t) == pc[t] = "done"

\* The cached token as the call found it: absent, or the clock at or past its expiry.
StartedInvalid(c) == c.tok0 \in {None, EmptyStr} \/ c.now0 >= c.exp0

\* The call's authenticate() failed and resp[t] is the token endpoint's answer.
AuthFailed(t) == Done(t) /\ call[t].authErr # "none"

\* The call got past authentication and resp[t] answers its last HTTP call.
HttpEnded(t) == Done(t) /\ call[t].authErr = "none"

\* C1: one request() issues at most two HTTP calls to the endpoint and at most
\* one re-authentication caused by a 401; when the retried call also answers
\* 401 the call ends with APIError, without a further re-authentication or retry.
C1_RetryBudget ==
  \A t \in Callers :
    /\ call[t].nHttp <= 2
    /\ call[t].nReauth <= 1
    /\ (HttpEnded(t) /\ call[t].nHttp = 2 /\ resp[t].kind = "http" /\ resp[t].status = 401)
         => (call[t].result = "APIError" /\ call[t].nReauth = 1)

C1_Witness ==
  \E t \in Callers :
    /\ HttpEnded(t) /\ call[t].nHttp = 2 /\ call[t].nReauth = 1
    /\ call[t].status1 = 401 /\ resp[t].kind = "http" /\ resp[t].status = 401
    /\ call[t].result = "APIError"

\* C2: a request() that starts with an invalid cached token makes exactly one
\* authenticate call before its first HTTP call; one that starts with a valid
\* cached token makes none.
C2_EnsureOnce ==
  \A t \in Callers :
    call[t].nHttp >= 1 =>
      call[t].authBefore = (IF StartedInvalid(call[t]) THEN 1 ELSE 0)

C2_Witness ==
  \E t \in Callers :
    /\ call[t].nHttp >= 1 /\ call[t].authBefore = 1
    /\ Truthy(call[t].tok0) /\ call[t].now0 >= call[t].exp0

\* C7: the token endpoint answering 401 {"message": "bad credentials"} makes
\* authenticate fail with AuthenticationError.
C7_RejectedCredentials ==
  \A t \in Callers :
    (AuthFailed(t) /\ resp[t].kind = "http" /\ resp[t].status = 401
       /\ resp[t].body = MessageBody)
      => call[t].authErr = "AuthenticationError"

\* C8: a transport failure of the HTTP call of request() ends the call with
\* NetworkError.
C8_TransportIsNetworkError ==
  \A t \in Callers :
    (HttpEnded(t) /\ resp[t].kind = "transport") => call[t].result = "NetworkError"

\* C9: when the cached token is invalid at the start of request() and the
\* authentication this triggers fails, the call ends with that same error,
\* after one authentication attempt and without any HTTP call to the endpoint.
C9_AuthFailurePropagates ==
  \A t \in Callers :
    (AuthFailed(t) /\ StartedInvalid(call[t]) /\ call[t].stage = "ensure")
      => /\ call[t].result = call[t].authErr
         /\ call[t].nAuth = 1
         /\ call[t].nHttp = 0

C9_Witness ==
  \E t \in Callers :
    /\ AuthFailed(t) /\ StartedInvalid(call[t]) /\ call[t].stage = "ensure"
    /\ call[t].result = "AuthenticationError"
    /\ resp[t].kind = "http" /\ resp[t].status = 200

\* C10: a first HTTP answer with a 4xx/5xx status other than 401 ends the call
\* with APIError after exactly one HTTP call, with no re-authentication.
C10_NoRetryOnOtherErrors ==
  \A t \in Callers :
    (call[t].kind1 = "http" /\ call[t].status1 >= 400 /\ call[t].status1 # 401)
      => /\ Done(t)
         /\ call[t].result = "APIError"
         /\ call[t].nHttp = 1
         /\ call[t].nReauth = 0

C10_Witness ==
  \E t \in Callers :
    /\ Done(t) /\ call[t].kind1 = "http" /\ call[t].status1 = 404
    /\ call[t].result = "APIError" /\ call[t].nHttp = 1

\* C11: with auto_refresh on, a first HTTP answer of 401 is followed by one
\* re-authentication whatever the expiry of the cached token; the retry is
\* sent only after the cache holds the token of that re-authentication, with
\* the method, endpoint and body of the first call, and carries that token,
\* not the rejected one.
C11_RefreshAndRetry ==
  \A t \in Callers :
    /\ (call[t].kind1 = "http" /\ call[t].status1 = 401 /\ auto_refresh)
         => call[t].nReauth = 1
    /\ call[t].nHttp = 2
         => /\ call[t].status1 = 401 /\ call[t].nReauth = 1
            /\ call[t].req2 = call[t].req1 /\ call[t].req1 = call[t].req
            /\ Truthy(call[t].sent2) /\ call[t].sent2 # call[t].sent1
    /\ (pc[t] = "http_wait" /\ call[t].nHttp = 2)
         => /\ resp[t].grants
            /\ call[t].sent2 = resp[t].body.tok["token"]
            /\ token = call[t].sent2

\* A 401 on an unexpired cached token, re-authentication, and a retry that succeeds.
C11_Witness ==
  \E t \in Callers :
    /\ Done(t) /\ ~StartedInvalid(call[t]) /\ call[t].now0 < call[t].exp0
    /\ call[t].status1 = 401 /\ call[t].nHttp = 2 /\ call[t].result = "ok"
    /\ call[t].req2 = PostSend /\ call[t].sent2 = token

\* C11 as stated, without the auto_refresh switch: every first answer of 401
\* is followed by a re-authentication.
C11_AlwaysReauthenticates ==
  \A t \in Callers :
    (call[t].kind1 = "http" /\ call[t].status1 = 401) => call[t].nReauth = 1

\* authenticate() returned and resp[t] is the token endpoint's answer.
AuthSucceeded(t) == pc[t] = "http_wait" /\ call[t].nAuth >= 1

\* The answer r is a 2xx JSON body with the non-empty token v in the field f
\* and in no other alias field, and no lifetime field.
OnlyAlias(r, f) ==
  /\ r.kind = "http" /\ r.status = 200 /\ r.json_ok
  /\ Truthy(r.body.tok[f])
  /\ r.body = Body(OneAlias(f, r.body.tok[f]), AbsentField, AbsentField)

\* C21: with auto_refresh off, a first answer of 401 ends the call with
\* APIError after exactly one HTTP call, without re-authentication; the cache
\* still holds the token that call carried.
C21_NoRefreshWhenDisabled ==
  \A t \in Callers :
    (~auto_refresh /\ call[t].kind1 = "http" /\ call[t].status1 = 401)
      => /\ Done(t)
         /\ call[t].result = "APIError"
         /\ call[t].nHttp = 1
         /\ call[t].nReauth = 0
         /\ call[t].nAuth = call[t].authBefore
         /\ token = call[t].sent1

\* A 401 on a token that was cached and unexpired when the call started.
C21_Witness ==
  \E t \in Callers :
    /\ ~auto_refresh /\ Done(t) /\ call[t].status1 = 401
    /\ ~StartedInvalid(call[t]) /\ call[t].nAuth = 0
    /\ call[t].result = "APIError" /\ token = call[t].tok0

\* C12: a 2xx answer of the token endpoint carrying a non-empty token in
\* exactly one of the fields token, access_token, auth_token, key is accepted
\* by authenticate, and the value becomes the cached token.
C12_EveryAliasAccepted ==
  \A t \in Callers : \A f \in AliasFields :
    ((AuthFailed(t) \/ AuthSucceeded(t)) /\ OnlyAlias(resp[t], f))
      => /\ call[t].authErr = "none"
         /\ token = resp[t].body.tok[f]

\* C13: an authenticate that succeeds stores an expiry strictly after the
\* time it was called, whatever lifetime the answer carries (stated for the
\* authenticate of _ensure_token, which is called at the time the request starts).
C13_ExpiryAfterCall ==
  \A t \in Callers :
    (AuthSucceeded(t) /\ call[t].stage = "ensure")
      => token_expiry > call[t].now0

\* The step in which caller t's authenticate() raises.
AuthFails(t) == pc[t] = "auth_reply" /\ pc'[t] = "done"

\* The step in which a generate_token() raises.
GenerateFails ==
  /\ tm_last' # tm_last
  /\ tm_last'.gens = 1 /\ tm_last'.err # "none"

\* C18: an authentication attempt that fails, the re-authentication after a
\* 401 included, leaves the cached token and the cached expiry as they were.
C18_FailedAuthKeepsCache ==
  [][/\ \A t \in Callers :
          AuthFails(t) => (token' = token /\ token_expiry' = token_expiry)
     /\ GenerateFails => (tm_token' = tm_token /\ tm_expires_at' = tm_expires_at)]_vars

\* The failures C18 lists (no answer, an error status, a 2xx body without a
\* recognized token field) leave the cache as it was.
ListedFailuresKeepCache ==
  [][/\ \A t \in Callers :
          (AuthFails(t) /\ call'[t].authErr \in {"NetworkError", "AuthenticationError"})
            => (token' = token /\ token_expiry' = token_expiry)
     /\ (GenerateFails /\ tm_last'.err \in {"ConnectionError", "HTTPError", "ValueError"})
          => (tm_token' = tm_token /\ tm_expires_at' = tm_expires_at)]_vars

\* ----------------------------------------------------- claims, TokenManager
\* C5: the validity query is true exactly when a non-empty token is stored,
\* its expiry is known and the clock is strictly before the expiry; the same
\* holds of the negated refresh condition of _ensure_token.
C5_ValidityQuery ==
  /\ IsTokenValid(tm_token, tm_expires_at, now)
       <=> (/\ tm_token # None /\ tm_token # EmptyStr
            /\ tm_expires_at # None
            /\ now < tm_expires_at)
  /\ ~NeedsRefresh(token, token_expiry, now)
       <=> (/\ token # None /\ token # EmptyStr
            /\ now < token_expiry)

\* A stored token at the very instant of its expiry.
C5_Witness ==
  /\ Truthy(tm_token) /\ tm_expires_at = now
  /\ ~IsTokenValid(tm_token, tm_expires_at, now)

\* generate_token (called directly) accepts each of the four alias fields.
TMAcceptsEveryAlias ==
  \A f \in AliasFields :
    (tm_last.op = "generate_token" /\ OnlyAlias(tm_last.tokenResp, f))
      => /\ tm_last.err = "none"
         /\ tm_token = tm_last.tokenResp.body.tok[f]
         /\ tm_last.ret.token = tm_token

\* C15: a non-empty cached token is never treated as valid without a concrete
\* expiry in the future: an unknown expiry (None) makes the validity query
\* answer false, get_auth_headers uses the cached token without a status
\* check only when its expiry is known, and _ensure_token skips the refresh
\* only before the stored expiry.
C15_NoSilentValidity ==
  /\ IsTokenValid(tm_token, tm_expires_at, now)
       => (tm_expires_at # None /\ tm_expires_at > now)
  /\ (Truthy(tm_token) /\ tm_expires_at = None)
       => ~IsTokenValid(tm_token, tm_expires_at, now)
  /\ tm_last.was_valid => (Truthy(tm_token) /\ tm_expires_at # None)
  /\ (Truthy(token) /\ ~NeedsRefresh(token, token_expiry, now))
       => token_expiry > now

\* A token stored by a generate_token that failed converting the lifetime:
\* non-empty, expiry unknown.
C15_Witness ==
  /\ Truthy(tm_token) /\ tm_expires_at = None
  /\ tm_last.gens = 1 /\ tm_last.err = "TypeError"
  /\ ~IsTokenValid(tm_token, tm_expires_at, now)

\* The HTTP call failed: no answer, or an answer with an error status.
FailedAnswer(r) == r.kind = "transport" \/ (r.kind = "http" /\ r.status >= 400)

\* exceptions.py: the three error classes of the SDK
SdkErrors == {"AuthenticationError", "NetworkError", "APIError"}

\* C16: an operation whose HTTP call failed ends in an error (in request,
\* one of AuthenticationError, NetworkError, APIError); it never returns a
\* result in place of the error.
C16_FailuresAreFatal ==
  /\ (tm_pc = "idle" /\ tm_last.checks = 1 /\ FailedAnswer(tm_last.checkResp))
       => tm_last.err # "none"
  /\ (tm_last.gens = 1 /\ FailedAnswer(tm_last.tokenResp))
       => tm_last.err # "none"
  /\ \A t \in Callers :
       (Done(t) /\ FailedAnswer(resp[t])) => call[t].result \in SdkErrors

\* C17: the cached token and its expiry change only in a step in which an
\* authentication (generate_token, authenticate) handles its answer; the
\* status check, the queries, the clock and the HTTP call of request leave
\* them as they are.
C17_OnlyAuthenticationWrites ==
  [][/\ (tm_token' # tm_token \/ tm_expires_at' # tm_expires_at)
          => tm_last'.gens = 1
     /\ (token' # token \/ token_expiry' # token_expiry)
          => \E t \in Callers : pc[t] = "auth_reply" /\ pc'[t] # "auth_reply"]_vars

\* The status answer r reports a token whose expiry is after the time t.
FutureToken(r, t) ==
  /\ r.kind = "http" /\ ~RaisesForStatus(r) /\ r.json_ok /\ r.has_token
  /\ r.expires_at.tag = "int" /\ r.expires_at.val > t

\* The status answer r reports a token with a whole minute or more left at t.
MinuteLeft(r, t) ==
  FutureToken(r, t) /\ r.expires_at.val - t >= SecondsPerMinute

\* The step in which get_token_info handles the answer of its status check.
InfoChecked ==
  tm_pc = "idle" /\ tm_last' # tm_last /\ tm_last'.op = "get_token_info"

\* get_token_info, with `reusable` saying whether the status answer it has
\* just handled lets it return the existing token: if so it returns that
\* token without a generate_token call and with is_new_token false; if not
\* (and the status check did not raise) it calls generate_token once and, when
\* that succeeds, returns the new token with is_new_token true.
InfoRule(reusable) ==
  /\ (InfoChecked /\ reusable)
       => /\ tm_pc' = "idle" /\ tm_last'.err = "none" /\ tm_last'.gens = 0
          /\ ~tm_last'.ret.is_new_token
          /\ tm_last'.ret.token = FirstAlias(tm_last'.checkResp.tok)
  /\ (InfoChecked /\ ~reusable /\ tm_last'.err = "none")
       => tm_pc' = "generating"
  /\ (tm_pc = "generating" /\ tm_pc' = "idle" /\ tm_last.op = "get_token_info")
       => /\ tm_last'.gens = 1
          /\ tm_last'.err = "none"
               => /\ tm_last'.ret.is_new_token
                  /\ tm_last'.ret.token = tm_token'
                  /\ tm_last'.ret.token = FirstAlias(tm_last'.tokenResp.body.tok)

\* C19: get_token_info returns the existing token, without generating, when
\* the status check reports a token with a future expiry; in every other
\* case it calls generate_token exactly once and returns the new token with
\* is_new_token true.
C19_InfoReusesValidToken ==
  [][InfoRule(FutureToken(tm_last'.checkResp, now))]_vars

\* What get_token_info does: it reuses the token only when a whole minute is left.
InfoReusesTokenWithMinuteLeft ==
  [][InfoRule(MinuteLeft(tm_last'.checkResp, now))]_vars

\* get_auth_headers has returned.
HeadersReturned ==
  tm_pc = "idle" /\ tm_last.op = "get_auth_headers" /\ tm_last.err = "none"

\* The header get_auth_headers returns is always built from the cached token.
HeaderIsCachedToken ==
  HeadersReturned => tm_last.header = AuthHeader(tm_token)

\* C20: when get_auth_headers returns, the cached token is non-empty and the
\* Authorization header is "Bearer " followed by that token.
C20_HeaderCarriesToken ==
  HeadersReturned => (Truthy(tm_token) /\ tm_last.header = AuthHeader(tm_token))

\* The first half of C14: a status answer reporting no token leaves the
\* cached token and expiry None.
ClearsOnNoToken ==
  (tm_last.checks = 1 /\ tm_last.gens = 0 /\ ReportsNoToken(tm_last.checkResp))
    => (tm_token = None /\ tm_expires_at = None /\ tm_cleared)

\* C14: a status answer reporting no token empties the cached token and its
\* expiry, and from then until a generate_token succeeds the validity query
\* answers false.
C14_ClearedStaysInvalid ==
  /\ ClearsOnNoToken
  /\ tm_cleared => ~IsTokenValid(tm_token, tm_expires_at, now)

\* --------------------------------------------------------- claims, facade
\* C6: a 2xx answer of the token endpoint with none of the fields token,
\* access_token, auth_token, key makes authentication fail with
\* AuthenticationError; no empty or absent token is returned as a success
\* or stored.
C6_NoTokenIsAuthError ==
  (/\ wa_last.op = "generate_token"
   /\ wa_last.r.kind = "http" /\ wa_last.r.status = 200 /\ wa_last.r.json_ok
   /\ \A f \in AliasFields : ~Truthy(wa_last.r.body.tok[f]))
    => wa_last.err = "AuthenticationError"

\* C22: send_message on the facade, when no generate_token call has completed
\* without error before it, raises ValueError and makes no HTTP call; also
\* after generate_token calls that all failed.
C22_SendNeedsToken ==
  (wa_last.op = "send_message" /\ ~wa_seen.ok)
    => (wa_last.err = "ValueError" /\ wa_last.http = 0 /\ ~wa_sender.exists)

\* send_message refused after a generate_token that raised.
C22_Witness ==
  /\ wa_last.op = "send_message" /\ wa_seen.failed /\ ~wa_seen.ok
  /\ wa_last.err = "ValueError" /\ wa_last.http = 0

\* When the sender exists its token is WhatsApp.token and the token manager's.
SenderTokenAgrees ==
  wa_sender.exists => (wa_sender.token = wa_token /\ wa_token = wa_tm_token)

\* C23: the message sender exists if and only if a non-empty token has been
\* obtained, and its token is then both WhatsApp.token and the token held by
\* the facade's token manager.
C23_SenderIffToken ==
  /\ wa_sender.exists <=> wa_seen.obtained
  /\ SenderTokenAgrees

\* ------------------------------------------------ claims, MessageReceiver
\* The callback is invoked in a poll step exactly when the step's fetch
\* returned at least one message.
CallbackIffMessages ==
  mr_polls > 0 => (mr_poll.called <=> Len(mr_poll.messages) > 0)

\* C24: every poll step starts exactly one timer for the next step, whether
\* its fetch returned messages, returned none, degraded to an error result or
\* raised, and whether the callback returned or raised an Exception; the
\* callback is invoked exactly when the fetch returned at least one message.
C24_PollReschedulesOnce ==
  /\ (mr_polls > 0 /\ mr_poll.outcome # "SystemExit") => mr_poll.scheduled = 1
  /\ CallbackIffMessages

\* A poll step whose callback raised an Exception and which started the next timer.
C24_Witness ==
  /\ mr_polls > 0 /\ mr_poll.called /\ mr_poll.outcome = "Exception"
  /\ mr_poll.scheduled = 1 /\ mr_timers > 0

\* C24 as stated: every poll step starts exactly one timer, however the
\* callback ended.
C24_EveryPollReschedules ==
  /\ mr_polls > 0 => mr_poll.scheduled = 1
  /\ CallbackIffMessages

\* C25: once stop_polling has returned, no further poll step runs (and so no
\* timer is started and the callback is not invoked again).
C25_StopEndsPolling ==
  [][mr_stopped => mr_polls' = mr_polls]_vars

\* The fetch's HTTP call timed out, failed in transport or was answered with
\* an error status.
FetchFailed(r) ==
  r.kind \in {"timeout", "transport"} \/ (r.kind = "http" /\ r.status >= 400)

\* C26: when its HTTP call times out, fails in transport or is answered with
\* an error status, receive_messages raises nothing, returns an empty
\* messages list with an error field, and leaves last_message_id as it was.
C26_FetchDegrades ==
  FetchFailed(mr_fetch.resp)
    => /\ mr_fetch.err = "none"
       /\ mr_fetch.messages = <<>>
       /\ mr_fetch.error # "none"
       /\ mr_last_message_id = mr_fetch.before

\* A fetch that timed out while a cursor was set.
C26_Witness ==
  /\ mr_fetch.resp.kind = "timeout" /\ mr_fetch.before # None
  /\ mr_fetch.error = "timeout" /\ mr_last_message_id = mr_fetch.before

\* The step in which a receive_messages call (direct or of a poll step) ends.
FetchStep == mr_fetch' # mr_fetch \/ mr_last_message_id' # mr_last_message_id

\* last_message_id changes only on a fetch that returned a non-empty list, to
\* what the first message of the list gives as its id; and a fetch sends the
\* cursor as 'after' when it is set.
CursorMovesOnMessages ==
  [][/\ mr_last_message_id' # mr_last_message_id
          => /\ mr_fetch'.err = "none" /\ Len(mr_fetch'.messages) > 0
             /\ mr_last_message_id' = mr_fetch'.messages[1]
     /\ (FetchStep /\ mr_last_message_id # None)
          => mr_fetch'.after = mr_last_message_id]_vars

\* C27: once set, last_message_id is never reset to absent; it changes only
\* on a successful fetch with a non-empty messages list, to the id of the
\* first message, and every later fetch sends it as the 'after' parameter.
C27_CursorNeverReset ==
  [][/\ mr_last_message_id # None => mr_last_message_id' # None
     /\ mr_last_message_id' # mr_last_message_id
          => /\ mr_fetch'.err = "none" /\ Len(mr_fetch'.messages) > 0
             /\ mr_last_message_id' = mr_fetch'.messages[1]
     /\ (FetchStep /\ mr_last_message_id # None)
          => mr_fetch'.after = mr_last_message_id]_vars

\* ------------------------------------------- claims, concurrent BaseService
\* C3: callers that run the ensure-valid-token step concurrently while no
\* valid token is cached share one authentication request: at most one
\* authentication started by _ensure_token is in flight at a time.
C3_SingleFlight ==
  Cardinality({t \in Callers : /\ pc[t] \in {"auth_wait", "auth_reply"}
                               /\ call[t].stage = "ensure"}) <= 1

\* C4: the cache never goes from the token of a newer authentication response
\* to the token of an older one.
C4_NoStaleOverwrite ==
  [][(Truthy(token) /\ Truthy(token')) => token' >= token]_vars

====
